---- MODULE Spec2Model ----
(***************************************************************************)
(* Model of lib/parse_cluster_yaml.py: the script that reads cluster.yaml  *)
(* and prints shell variable assignments.                                   *)
(*                                                                          *)
(* Text is a sequence of tokens.  A token is one character of a value, or   *)
(* the name of an emitted variable together with its "=" sign (such a name  *)
(* holds no quote, blank or line break, so it is kept as one token).        *)
(* Three characters that cannot be written inside a TLA+ string are named:  *)
(* DQ (double quote), BT (backtick) and NL (line feed).                     *)
(***************************************************************************)
EXTENDS Naturals, Sequences, FiniteSets, TLC

VARIABLES
    argc,     \* len(sys.argv)
    file,     \* what the path names: missing, invalid YAML, or a document
    pc,       \* position of the script
    config,   \* the value yaml.safe_load returned
    lines,    \* the list `lines` of parse_cluster_yaml
    i,        \* the loop index of enumerate(jobs)
    output,   \* the value parse_cluster_yaml returned
    stdout,   \* text written to standard output
    stderr,   \* messages written to standard error
    exc,      \* the exception in flight ("none" when there is none)
    status,   \* <<>> while the process runs, then <<exit status>>
    pin,      \* input of a pure function under test
    pout      \* its result

vars == <<argc, file, pc, config, lines, i, output, stdout, stderr, exc, status, pin, pout>>

(***************************** characters *********************************)
SQ == "'"
DQ == "<dq>"
BT == "<bt>"
NL == "<nl>"
SP == " "
DOLLAR == "$"

LowerAlpha ==
    <<"a","b","c","d","e","f","g","h","i","j","k","l","m",
      "n","o","p","q","r","s","t","u","v","w","x","y","z">>
UpperAlpha ==
    <<"A","B","C","D","E","F","G","H","I","J","K","L","M",
      "N","O","P","Q","R","S","T","U","V","W","X","Y","Z">>
DigitChars == <<"0","1","2","3","4","5","6","7","8","9">>

Range(s) == {s[k] : k \in 1..Len(s)}

\* shlex._find_unsafe = re.compile(r'[^\w@%+=:,./-]', re.ASCII).search
SafeChars ==
    Range(LowerAlpha) \cup Range(UpperAlpha) \cup Range(DigitChars)
        \cup {"_", "@", "%", "+", "=", ":", ",", ".", "/", "-"}

(************************* Python values **********************************)
\* One shape for every decoded YAML value; t is the Python type.
VNone == [t |-> "none", s |-> <<>>, n |-> 0, b |-> FALSE, l |-> <<>>, m |-> <<>>]
VStr(str) == [t |-> "str", s |-> str, n |-> 0, b |-> FALSE, l |-> <<>>, m |-> <<>>]
VInt(num) == [t |-> "int", s |-> <<>>, n |-> num, b |-> FALSE, l |-> <<>>, m |-> <<>>]
VBool(bool) == [t |-> "bool", s |-> <<>>, n |-> 0, b |-> bool, l |-> <<>>, m |-> <<>>]
VList(items) == [t |-> "list", s |-> <<>>, n |-> 0, b |-> FALSE, l |-> items, m |-> <<>>]
\* A mapping is its sequence of <<key, value>> pairs, in document order.
VMap(pairs) == [t |-> "dict", s |-> <<>>, n |-> 0, b |-> FALSE, l |-> <<>>, m |-> pairs]

HasKey(d, key) == \E k \in 1..Len(d.m) : d.m[k][1] = key
Lookup(d, key) == d.m[CHOOSE k \in 1..Len(d.m) : d.m[k][1] = key][2]
\* dict.get(key, default)
Get(d, key, default) == IF HasKey(d, key) THEN Lookup(d, key) ELSE default
\* Only a dict has .get; on anything else the attribute lookup raises.
HasGet(v) == v.t = "dict"

\* bool(value), as `if project:` takes it
Truthy(v) ==
    CASE v.t = "none" -> FALSE
      [] v.t = "str"  -> Len(v.s) > 0
      [] v.t = "int"  -> v.n # 0
      [] v.t = "bool" -> v.b
      [] v.t = "list" -> Len(v.l) > 0
      [] v.t = "dict" -> Len(v.m) > 0

RECURSIVE Digits(_)
Digits(num) ==
    IF num < 10 THEN <<DigitChars[num + 1]>>
    ELSE Digits(num \div 10) \o <<DigitChars[(num % 10) + 1]>>

\* str(value) for the scalars a field can hold
PyStr(v) ==
    CASE v.t = "none" -> <<"N","o","n","e">>
      [] v.t = "str"  -> v.s
      [] v.t = "int"  -> Digits(v.n)
      [] v.t = "bool" -> IF v.b THEN <<"T","r","u","e">> ELSE <<"F","a","l","s","e">>

LowerChar(c) ==
    IF c \in Range(UpperAlpha)
    THEN LowerAlpha[CHOOSE k \in 1..Len(UpperAlpha) : UpperAlpha[k] = c]
    ELSE c
\* str.lower()
Lower(str) == [k \in 1..Len(str) |-> LowerChar(str[k])]

(***************************** escaping ***********************************)
\* s.replace("'", "'\"'\"'")
RECURSIVE ReplaceSQ(_)
ReplaceSQ(str) ==
    IF str = <<>> THEN <<>>
    ELSE (IF Head(str) = SQ THEN <<SQ, DQ, SQ, DQ, SQ>> ELSE <<Head(str)>>)
             \o ReplaceSQ(Tail(str))

\* A plausible slip: the value is wrapped in quotes, its own quotes left alone.
quoteNoReplace(str) ==
    IF str = <<>> THEN <<SQ, SQ>>
    ELSE IF \A k \in 1..Len(str) : str[k] \in SafeChars THEN str
    ELSE <<SQ>> \o str \o <<SQ>>

\* shlex.quote(s)
quote(str) ==
    IF str = <<>> THEN <<SQ, SQ>>
    ELSE IF \A k \in 1..Len(str) : str[k] \in SafeChars THEN str
    ELSE <<SQ>> \o ReplaceSQ(str) \o <<SQ>>

shell_escape(value) ==
    IF value.t = "none" THEN <<>> ELSE quote(PyStr(value))

(************************** building lines ********************************)
\* f"JOB_{i}_<FIELD>=" : one token
JobVar(idx, field) == "JOB_" \o ToString(idx) \o "_" \o field \o "="

RECURSIVE JoinWith(_, _)
\* sep.join(parts), parts a sequence of texts
JoinWith(sep, parts) ==
    IF parts = <<>> THEN <<>>
    ELSE IF Len(parts) = 1 THEN parts[1]
    ELSE parts[1] \o sep \o JoinWith(sep, Tail(parts))

\* len(value): defined for str, list and dict only
HasLen(v) == v.t \in {"str", "list", "dict"}
PyLen(v) ==
    CASE v.t = "str"  -> Len(v.s)
      [] v.t = "list" -> Len(v.l)
      [] v.t = "dict" -> Len(v.m)

\* what iterating over a value yields
Items(v) ==
    CASE v.t = "str"  -> [k \in 1..Len(v.s) |-> VStr(<<v.s[k]>>)]
      [] v.t = "list" -> v.l
      [] v.t = "dict" -> [k \in 1..Len(v.m) |-> VStr(<<v.m[k][1]>>)]

\* str.join accepts an iterable whose items are all str
Joinable(v) == HasLen(v) /\ \A k \in 1..Len(Items(v)) : Items(v)[k].t = "str"
JoinComma(v) == JoinWith(<<",">>, [k \in 1..Len(Items(v)) |-> Items(v)[k].s])

(*********************** parse_cluster_yaml, by step **********************)
\* What a step hands back: the lines it appended and the exception it raised.
Step(ls, e) == [lines |-> ls, exc |-> e]

Line(var, value) == <<var>> \o shell_escape(value)

EmptyStr == VStr(<<>>)
Text_sbatch == <<"s","b","a","t","c","h">>
Text_sonnet == <<"s","o","n","n","e","t">>
Text_opus == <<"o","p","u","s">>
Text_050 == <<"0",".","5","0">>
Text_100 == <<"1",".","0","0">>
DefaultMaxFixCycles == 3

\* A plausible slip: the section's presence, not its truth value, is tested.
ProjectStepByPresence(cfg) ==
    IF ~HasGet(cfg) THEN Step(<<>>, "AttributeError")
    ELSE IF ~HasKey(cfg, "project") THEN Step(<<>>, "none")
    ELSE IF ~HasGet(Lookup(cfg, "project")) THEN Step(<<>>, "AttributeError")
    ELSE Step(<<Line("PROJECT_NAME=", Get(Lookup(cfg, "project"), "name", EmptyStr))>>, "none")

\* project = config.get("project", {}); if project: lines.append(...)
ProjectStep(cfg) ==
    IF ~HasGet(cfg) THEN Step(<<>>, "AttributeError")
    ELSE LET project == Get(cfg, "project", VMap(<<>>)) IN
         IF ~Truthy(project) THEN Step(<<>>, "none")
         ELSE IF ~HasGet(project) THEN Step(<<>>, "AttributeError")
         ELSE Step(<<Line("PROJECT_NAME=", Get(project, "name", EmptyStr))>>, "none")

\* jobs = config.get("jobs", [])
JobsOf(cfg) == Get(cfg, "jobs", VList(<<>>))

\* A plausible slip: the count is written only when there are jobs.
NumJobsStepSkipZero(cfg) ==
    IF ~HasLen(JobsOf(cfg)) THEN Step(<<>>, "TypeError")
    ELSE IF PyLen(JobsOf(cfg)) = 0 THEN Step(<<>>, "none")
    ELSE Step(<< <<"NUM_JOBS=">> \o Digits(PyLen(JobsOf(cfg))) >>, "none")

\* lines.append(f"NUM_JOBS={len(jobs)}")
NumJobsStep(cfg) ==
    IF ~HasLen(JobsOf(cfg)) THEN Step(<<>>, "TypeError")
    ELSE Step(<< <<"NUM_JOBS=">> \o Digits(PyLen(JobsOf(cfg))) >>, "none")

\* A plausible slip: the string is joined as it stands, character by character.
NormalizeDependsNot(depends) == depends

\* if isinstance(depends, str): depends = [depends]
NormalizeDepends(depends) ==
    IF depends.t = "str" THEN VList(<<depends>>) ELSE depends

\* f"job_{i}"
DefaultJobName(idx) == VStr(<<"j","o","b","_">> \o Digits(idx))

\* A plausible slip: the index printed is one-based.
JobIndexOneBased(idx) == idx + 1

\* the i of f"JOB_{i}_..."
JobIndex(idx) == idx

\* one pass of the body of `for i, job in enumerate(jobs)`
JobBody(idx, job) ==
    IF ~HasGet(job) THEN Step(<<>>, "AttributeError")
    ELSE LET first == << Line(JobVar(JobIndex(idx), "NAME"), Get(job, "name", DefaultJobName(idx))),
                         Line(JobVar(JobIndex(idx), "SCRIPT"), Get(job, "script", EmptyStr)),
                         Line(JobVar(JobIndex(idx), "TYPE"), Get(job, "type", VStr(Text_sbatch))),
                         Line(JobVar(JobIndex(idx), "ARRAY"), Get(job, "array", EmptyStr)) >>
             depends == NormalizeDepends(Get(job, "depends_on", VList(<<>>)))
         IN  IF ~Joinable(depends) THEN Step(first, "TypeError")
             ELSE Step(first \o
                       << Line(JobVar(JobIndex(idx), "DEPENDS_ON"), VStr(JoinComma(depends))),
                          Line(JobVar(JobIndex(idx), "SBATCH_FLAGS"), Get(job, "sbatch_flags", EmptyStr)) >>,
                       "none")

\* str(claude.get(key, False)).lower()
BoolText(claude, key) == VStr(Lower(PyStr(Get(claude, key, VBool(FALSE)))))

\* claude = config.get("claude", {}) and the seven appends
ClaudeStep(cfg) ==
    LET claude == Get(cfg, "claude", VMap(<<>>)) IN
    IF ~HasGet(claude) THEN Step(<<>>, "AttributeError")
    ELSE Step(<< Line("CLAUDE_ENABLED=", BoolText(claude, "enabled")),
                 Line("CLAUDE_AUTO_FIX=", BoolText(claude, "auto_fix")),
                 Line("CLAUDE_MAX_FIX_CYCLES=", Get(claude, "max_fix_cycles", VInt(DefaultMaxFixCycles))),
                 Line("CLAUDE_REVIEW_MODEL=", Get(claude, "review_model", VStr(Text_sonnet))),
                 Line("CLAUDE_FIX_MODEL=", Get(claude, "fix_model", VStr(Text_opus))),
                 Line("CLAUDE_REVIEW_BUDGET=", Get(claude, "review_budget", VStr(Text_050))),
                 Line("CLAUDE_FIX_BUDGET=", Get(claude, "fix_budget", VStr(Text_100))) >>,
              "none")

(***************************** the inputs *********************************)
MaxJobs == 2

Text_demo == <<"d","e","m","o">>
Text_simulation == <<"s","i","m","u","l","a","t","i","o","n">>
Text_script == <<"s","u","b","m","i","t","_","g","a","t","e",".","s","b","a","t","c","h">>
Text_array == <<"1","-","1","0">>
Text_merge == <<"m","e","r","g","e">>
Text_ab == <<"a", SP, "b">>
Text_twolines == <<"a", NL, "b">>
Text_its == <<"i","t",SQ,"s">>

\* the job of the documented example
ExampleJob ==
    VMap(<< <<"name", VStr(Text_simulation)>>, <<"script", VStr(Text_script)>>,
            <<"array", VStr(Text_array)>> >>)

JobSet ==
    { VMap(<<>>),
      ExampleJob,
      VMap(<< <<"name", VNone>>, <<"script", VNone>>, <<"type", VNone>>,
              <<"array", VNone>>, <<"depends_on", VStr(Text_simulation)>>,
              <<"sbatch_flags", VNone>> >>),
      VMap(<< <<"name", VStr(Text_merge)>>, <<"type", VStr(Text_its)>>,
              <<"depends_on", VList(<<VStr(Text_simulation), VStr(Text_simulation)>>)>>,
              <<"sbatch_flags", VStr(Text_ab)>> >>),
      VMap(<< <<"name", VStr(Text_twolines)>>, <<"array", VInt(7)>> >>),
      VMap(<< <<"depends_on", VNone>> >>),
      VNone }

SeqsUpTo(S, n) == UNION {[1..k -> S] : k \in 0..n}

Entry(key, value) == << <<key, value>> >>

ProjectSections ==
    { <<>>,
      Entry("project", VMap(<< <<"name", VStr(Text_demo)>> >>)),
      Entry("project", VMap(<<>>)),
      Entry("project", VNone),
      Entry("project", VMap(<< <<"owner", VStr(Text_ab)>> >>)),
      Entry("project", VMap(<< <<"name", VNone>> >>)),
      Entry("project", VStr(Text_demo)) }

ClaudeSections ==
    { <<>>,
      Entry("claude", VNone),
      Entry("claude", VMap(<<>>)),
      Entry("claude", VMap(<< <<"enabled", VBool(TRUE)>>, <<"auto_fix", VBool(TRUE)>> >>)),
      Entry("claude", VMap(<< <<"enabled", VNone>>, <<"review_model", VNone>> >>)),
      Entry("claude", VMap(<< <<"auto_fix", VBool(TRUE)>>, <<"max_fix_cycles", VInt(12)>>,
                              <<"review_model", VStr(Text_ab)>>, <<"fix_budget", VNone>> >>)) }

JobsSections ==
    {<<>>, Entry("jobs", VNone)} \cup {Entry("jobs", VList(js)) : js \in SeqsUpTo(JobSet, MaxJobs)}

\* the document of the example: project.name demo, one job, no claude section
ExampleDoc ==
    VMap(Entry("project", VMap(<< <<"name", VStr(Text_demo)>> >>))
         \o Entry("jobs", VList(<<ExampleJob>>)))

\* documents whose root is a mapping
MappingDocs ==
    {VMap(p \o j \o c) :
        p \in {<<>>, Entry("project", VMap(<< <<"name", VStr(Text_demo)>> >>))},
        j \in JobsSections,
        c \in {<<>>, Entry("claude", VMap(<< <<"enabled", VBool(TRUE)>> >>))}}
    \cup
    {VMap(p \o j \o c) :
        p \in ProjectSections,
        j \in {<<>>, Entry("jobs", VList(<<ExampleJob>>))},
        c \in ClaudeSections}

\* valid YAML whose root is no mapping: empty file, scalar, top-level sequence
OtherDocs == {VNone, VStr(Text_demo), VInt(7), VList(<<VStr(Text_demo)>>)}

MissingFile == [kind |-> "missing", doc |-> VNone]
InvalidFile == [kind |-> "invalid", doc |-> VNone]
DocFile(d) == [kind |-> "doc", doc |-> d]

Files == {MissingFile, InvalidFile} \cup {DocFile(d) : d \in MappingDocs \cup OtherDocs}

(**************************** the script **********************************)
Init ==
    /\ \/ argc = 2 /\ file \in Files
       \/ argc \in {1, 3} /\ file = MissingFile
    /\ pc = "start"
    /\ config = VNone
    /\ lines = <<>>
    /\ i = 0
    /\ output = <<>>
    /\ stdout = <<>>
    /\ stderr = <<>>
    /\ exc = "none"
    /\ status = <<>>
    /\ pin = <<>>
    /\ pout = <<>>

\* if len(sys.argv) != 2: print usage to stderr; sys.exit(1)
Usage ==
    /\ pc = "start" /\ argc # 2
    /\ stderr' = Append(stderr, "Usage")
    /\ status' = <<1>>
    /\ pc' = "exit"
    /\ UNCHANGED <<argc, file, config, lines, i, output, stdout, exc, pin, pout>>

\* with open(path, "r") as f
Open ==
    /\ pc = "start" /\ argc = 2
    /\ IF file.kind = "missing"
       THEN exc' = "FileNotFoundError" /\ pc' = "except"
       ELSE exc' = exc /\ pc' = "load"
    /\ UNCHANGED <<argc, file, config, lines, i, output, stdout, stderr, status, pin, pout>>

\* config = yaml.safe_load(f); lines = []
Load ==
    /\ pc = "load"
    /\ IF file.kind = "invalid"
       THEN exc' = "YAMLError" /\ pc' = "except" /\ config' = config
       ELSE exc' = exc /\ pc' = "project" /\ config' = file.doc
    /\ UNCHANGED <<argc, file, lines, i, output, stdout, stderr, status, pin, pout>>

\* A step's lines are appended; an exception leaves the function.
Apply(r, next) ==
    /\ lines' = lines \o r.lines
    /\ exc' = r.exc
    /\ pc' = IF r.exc = "none" THEN next ELSE "except"

Project ==
    /\ pc = "project"
    /\ Apply(ProjectStep(config), "numjobs")
    /\ UNCHANGED <<argc, file, config, i, output, stdout, stderr, status, pin, pout>>

NumJobs ==
    /\ pc = "numjobs"
    /\ Apply(NumJobsStep(config), "jobs")
    /\ i' = 0
    /\ UNCHANGED <<argc, file, config, output, stdout, stderr, status, pin, pout>>

Job ==
    /\ pc = "jobs"
    /\ i < PyLen(JobsOf(config))
    /\ Apply(JobBody(i, Items(JobsOf(config))[i + 1]), "jobs")
    /\ i' = i + 1
    /\ UNCHANGED <<argc, file, config, output, stdout, stderr, status, pin, pout>>

Claude ==
    /\ pc = "jobs"
    /\ i = PyLen(JobsOf(config))
    /\ Apply(ClaudeStep(config), "return")
    /\ UNCHANGED <<argc, file, config, i, output, stdout, stderr, status, pin, pout>>

\* return "\n".join(lines)
Return ==
    /\ pc = "return"
    /\ output' = JoinWith(<<NL>>, lines)
    /\ pc' = "print"
    /\ UNCHANGED <<argc, file, config, lines, i, stdout, stderr, exc, status, pin, pout>>

\* print(output), and the script ends
PrintOutput ==
    /\ pc = "print"
    /\ stdout' = stdout \o output \o <<NL>>
    /\ status' = <<0>>
    /\ pc' = "exit"
    /\ UNCHANGED <<argc, file, config, lines, i, output, stderr, exc, pin, pout>>

\* except FileNotFoundError
ExceptNotFound ==
    /\ pc = "except" /\ exc = "FileNotFoundError"
    /\ stderr' = Append(stderr, "Error: not found")
    /\ status' = <<1>>
    /\ pc' = "exit"
    /\ UNCHANGED <<argc, file, config, lines, i, output, stdout, exc, pin, pout>>

\* A plausible slip: the handler prints its message and forgets sys.exit(1),
\* so the script runs off its end with status 0.
ExceptYAMLErrorNoExit ==
    /\ pc = "except" /\ exc = "YAMLError"
    /\ stderr' = Append(stderr, "Error parsing YAML")
    /\ status' = <<0>>
    /\ pc' = "exit"
    /\ UNCHANGED <<argc, file, config, lines, i, output, stdout, exc, pin, pout>>

\* except yaml.YAMLError as e: print the message to stderr; sys.exit(1)
ExceptYAMLError ==
    /\ pc = "except" /\ exc = "YAMLError"
    /\ stderr' = Append(stderr, "Error parsing YAML")
    /\ status' = <<1>>
    /\ pc' = "exit"
    /\ UNCHANGED <<argc, file, config, lines, i, output, stdout, exc, pin, pout>>

\* No handler matches: the interpreter prints the traceback and exits with 1.
Uncaught ==
    /\ pc = "except" /\ exc \notin {"FileNotFoundError", "YAMLError"}
    /\ stderr' = Append(stderr, "Traceback")
    /\ status' = <<1>>
    /\ pc' = "exit"
    /\ UNCHANGED <<argc, file, config, lines, i, output, stdout, exc, pin, pout>>

Next ==
    \/ Usage
    \/ Open
    \/ Load
    \/ Project
    \/ NumJobs
    \/ Job
    \/ Claude
    \/ Return
    \/ PrintOutput
    \/ ExceptNotFound
    \/ ExceptYAMLError
    \/ Uncaught

Spec == Init /\ [][Next]_vars

(************************ the consuming shell *****************************)
\* How a POSIX shell reads the word after NAME= (quoting, section 2.2 of the
\* shell language): ok is FALSE when the word is not one literal value, that
\* is when something is expanded, a quote is left open, or text remains
\* after the word.  val is the value assigned.
NameChars == Range(LowerAlpha) \cup Range(UpperAlpha) \cup Range(DigitChars) \cup {"_"}

RECURSIVE ShellWord(_, _, _)
ShellWord(rest, mode, acc) ==
    IF rest = <<>> THEN [ok |-> mode = "plain", val |-> acc]
    ELSE LET c == Head(rest)
             more == Tail(rest)
             expands == /\ more # <<>>
                        /\ \/ Head(more) \in NameChars
                           \/ mode = "plain" /\ Head(more) \in {SQ, DQ}
         IN  CASE mode = "single" ->
                    IF c = SQ THEN ShellWord(more, "plain", acc)
                    ELSE ShellWord(more, "single", Append(acc, c))
               [] mode = "double" ->
                    IF c = DQ THEN ShellWord(more, "plain", acc)
                    ELSE IF c = BT \/ (c = DOLLAR /\ expands) THEN [ok |-> FALSE, val |-> acc]
                    ELSE ShellWord(more, "double", Append(acc, c))
               [] mode = "plain" ->
                    IF c = SQ THEN ShellWord(more, "single", acc)
                    ELSE IF c = DQ THEN ShellWord(more, "double", acc)
                    ELSE IF c = BT \/ (c = DOLLAR /\ expands) THEN [ok |-> FALSE, val |-> acc]
                    ELSE IF c \in {SP, NL}
                         THEN [ok |-> \A k \in 1..Len(more) : more[k] \in {SP, NL}, val |-> acc]
                    ELSE ShellWord(more, "plain", Append(acc, c))

ShellEval(word) == ShellWord(word, "plain", <<>>)

(******************* shell_escape as a pure function **********************)
MaxLen == 3

Alphabet == {"a", SP, SQ, DQ, DOLLAR, BT, NL}

InitEscape ==
    /\ pin \in {VStr(str) : str \in SeqsUpTo(Alphabet, MaxLen)}
    /\ pout = [word |-> <<>>, shell |-> [ok |-> FALSE, val |-> <<>>]]
    /\ pc = "escape"
    /\ argc = 2 /\ file = MissingFile /\ config = VNone /\ lines = <<>> /\ i = 0
    /\ output = <<>> /\ stdout = <<>> /\ stderr = <<>> /\ exc = "none" /\ status = <<>>

\* the token shell_escape(value) returns
Escape ==
    /\ pc = "escape"
    /\ pout' = [pout EXCEPT !.word = shell_escape(pin)]
    /\ pc' = "assign"
    /\ UNCHANGED <<argc, file, config, lines, i, output, stdout, stderr, exc, status, pin>>

\* the shell evaluates NAME=<token>
Assign ==
    /\ pc = "assign"
    /\ pout' = [pout EXCEPT !.shell = ShellEval(pout.word)]
    /\ pc' = "assigned"
    /\ UNCHANGED <<argc, file, config, lines, i, output, stdout, stderr, exc, status, pin>>

NextEscape == Escape \/ Assign

SpecEscape == InitEscape /\ [][NextEscape]_vars

(******************** depends_on as a pure function ***********************)
MaxDeps == 3

Text_sim == <<"s","i","m">>
Text_m1 == <<"m","1">>

DepNames == {Text_sim, Text_m1, Text_ab}

\* a job whose depends_on is absent, one string, or a sequence of strings
DependsJob(form, names) ==
    CASE form = "absent" -> VMap(<<>>)
      [] form = "str"    -> VMap(Entry("depends_on", VStr(names[1])))
      [] form = "list"   ->
            VMap(Entry("depends_on", VList([k \in 1..Len(names) |-> VStr(names[k])])))

InitDepends ==
    /\ pin \in {[idx |-> k, form |-> "list", names |-> ns] :
                    k \in 0..1, ns \in SeqsUpTo(DepNames, MaxDeps)}
           \cup {[idx |-> k, form |-> "str", names |-> <<nm>>] : k \in 0..1, nm \in DepNames}
           \cup {[idx |-> k, form |-> "absent", names |-> <<>>] : k \in 0..1}
    /\ pout = <<>>
    /\ pc = "depends"
    /\ argc = 2 /\ file = MissingFile /\ config = VNone /\ lines = <<>> /\ i = 0
    /\ output = <<>> /\ stdout = <<>> /\ stderr = <<>> /\ exc = "none" /\ status = <<>>

\* the loop body run on the job; pout is what it appended
Depends ==
    /\ pc = "depends"
    /\ pout' = JobBody(pin.idx, DependsJob(pin.form, pin.names)).lines
    /\ pc' = "depended"
    /\ UNCHANGED <<argc, file, config, lines, i, output, stdout, stderr, exc, status, pin>>

NextDepends == Depends

SpecDepends == InitDepends /\ [][NextDepends]_vars

(************************* reading the output *****************************)
JobFields == <<"NAME", "SCRIPT", "TYPE", "ARRAY", "DEPENDS_ON", "SBATCH_FLAGS">>
ClaudeVars ==
    <<"CLAUDE_ENABLED=", "CLAUDE_AUTO_FIX=", "CLAUDE_MAX_FIX_CYCLES=", "CLAUDE_REVIEW_MODEL=",
      "CLAUDE_FIX_MODEL=", "CLAUDE_REVIEW_BUDGET=", "CLAUDE_FIX_BUDGET=">>
ClaudeKeys ==
    <<"enabled", "auto_fix", "max_fix_cycles", "review_model", "fix_model",
      "review_budget", "fix_budget">>

\* the run ended with exit status 0
Done0 == pc = "exit" /\ status = <<0>>

\* the jobs of the loaded document, and how many there are
TheJobs == Items(JobsOf(config))
N == Len(TheJobs)

\* 1 when the first assignment is PROJECT_NAME, else 0
P == IF lines # <<>> /\ lines[1][1] = "PROJECT_NAME=" THEN 1 ELSE 0

\* the assignment of field f (1..6) of job k (0-based), and of claude field f (1..7)
JobLine(k, f) == lines[P + 1 + 6 * k + f]
ClaudeLine(f) == lines[P + 1 + 6 * N + f]

\* the value a shell assigns when it evaluates an assignment
Assigned(line) == ShellEval(Tail(line))

\* where the physical lines of standard output start: at its first token
\* and after every NL (print ends the text with NL, so none starts past it)
LineStarts == {k \in 1..Len(stdout) : k = 1 \/ stdout[k - 1] = NL}

CountNL(text) == Cardinality({k \in 1..Len(text) : text[k] = NL})

RECURSIVE SumNL(_)
SumNL(ls) == IF ls = <<>> THEN 0 ELSE CountNL(Head(ls)) + SumNL(Tail(ls))

VarNames == {"NUM_JOBS=", "PROJECT_NAME="}
JobVarSet == {JobVar(k, JobFields[f]) : k \in 0..(N - 1), f \in 1..6}

\* how many physical lines start with a token of the set
Starting(S) == Cardinality({k \in LineStarts : stdout[k] \in S})
\* physical lines that start with no variable name (an empty line is one)
Others ==
    Cardinality({k \in LineStarts :
                    stdout[k] \notin JobVarSet \cup Range(ClaudeVars) \cup VarNames})
\* physical lines that read NUM_JOBS=N and nothing more
NumJobsLines ==
    LET want == <<"NUM_JOBS=">> \o Digits(N) \o <<NL>>
    IN  Cardinality({k \in LineStarts :
                        /\ k + Len(want) - 1 <= Len(stdout)
                        /\ SubSeq(stdout, k, k + Len(want) - 1) = want})

RECURSIVE SplitComma(_, _)
SplitComma(text, cur) ==
    IF text = <<>> THEN <<cur>>
    ELSE IF Head(text) = "," THEN <<cur>> \o SplitComma(Tail(text), <<>>)
    ELSE SplitComma(Tail(text), Append(cur, Head(text)))

(**************************** C5 ******************************************)
\* C5: for every string s over the alphabet, a shell that evaluates
\* NAME=<shell_escape(s)> assigns exactly s: nothing is expanded, dropped
\* or split off.
C5_RoundTrip ==
    pc = "assigned" => pout.shell.ok /\ pout.shell.val = pin.s

C5_Witness ==
    /\ pc = "assigned"
    /\ {SQ, NL, DOLLAR} \subseteq Range(pin.s)
    /\ pout.shell.ok /\ pout.shell.val = pin.s

(**************************** C9 ******************************************)
DependsLineOf(form, names, idx) == JobBody(idx, DependsJob(form, names)).lines[5]

\* C9: a depends_on given as one string yields the line its one-element
\* sequence yields; a sequence yields its names, all of them, in order,
\* separated by commas; an absent depends_on yields the line of the empty
\* sequence, whose value is the empty string.
C9_DependsNormalised ==
    pc = "depended" =>
        /\ Len(pout) = 6
        /\ pout[5][1] = JobVar(pin.idx, "DEPENDS_ON")
        /\ pin.form = "str" =>
              /\ pout[5] = DependsLineOf("list", pin.names, pin.idx)
              /\ ShellEval(Tail(pout[5])) = [ok |-> TRUE, val |-> pin.names[1]]
        /\ (pin.form = "list" /\ pin.names # <<>>) =>
              /\ ShellEval(Tail(pout[5])).ok
              /\ SplitComma(ShellEval(Tail(pout[5])).val, <<>>) = pin.names
        /\ (pin.form = "absent" \/ pin.names = <<>>) =>
              /\ pout[5] = DependsLineOf("list", <<>>, pin.idx)
              /\ ShellEval(Tail(pout[5])) = [ok |-> TRUE, val |-> <<>>]

C9_Witness ==
    /\ pc = "depended"
    /\ pin.form = "str"
    /\ pin.names = <<Text_ab>>
    /\ pout[5] = DependsLineOf("list", <<Text_ab>>, pin.idx)

FieldText(job, key, default) ==
    IF ~HasKey(job, key) THEN default
    ELSE IF Lookup(job, key).t = "none" THEN <<>>
    ELSE PyStr(Lookup(job, key))

ProjectLineEmitted == lines # <<>> /\ lines[1][1] = "PROJECT_NAME="

\* C3 as stated: the line is there exactly when the project key is, an
\* empty section and a section without a name included, and then holds
\* the empty name.
C3_AsStated ==
    (Done0 /\ (HasKey(config, "project") => Lookup(config, "project").t = "dict")) =>
        /\ ProjectLineEmitted <=> HasKey(config, "project")
        /\ (HasKey(config, "project") /\ ~HasKey(Lookup(config, "project"), "name")) =>
              Assigned(lines[1]) = [ok |-> TRUE, val |-> <<>>]

\* C3 (amended): the line is emitted exactly when the project section is
\* present and is a mapping with at least one key; an absent section, a
\* null one and an empty mapping all omit it; a non-empty section without
\* a name emits the empty name, written as two single quotes.
C3_ProjectGate ==
    Done0 =>
        /\ ProjectLineEmitted <=>
              /\ HasKey(config, "project")
              /\ Lookup(config, "project").t = "dict"
              /\ Len(Lookup(config, "project").m) > 0
        /\ (ProjectLineEmitted /\ ~HasKey(Lookup(config, "project"), "name")) =>
              lines[1] = <<"PROJECT_NAME=", SQ, SQ>>

C3_Witness ==
    /\ Done0
    /\ HasKey(config, "project")
    /\ Lookup(config, "project") = VMap(<<>>)
    /\ ~ProjectLineEmitted

(**************************** C4 ******************************************)
\* the project and jobs sections flatten without an exception
FlattensUpToClaude ==
    /\ config.t = "dict"
    /\ ProjectStep(config).exc = "none"
    /\ NumJobsStep(config).exc = "none"
    /\ \A k \in 1..N : JobBody(k - 1, TheJobs[k]).exc = "none"

\* C4: for every document that is a mapping, the seven CLAUDE_ assignments
\* are emitted in order as the last seven, whether the claude section is
\* absent, present without content or partly filled; an absent field takes
\* its default.
C4_AsStated ==
    (pc = "exit" /\ file.kind = "doc" /\ FlattensUpToClaude) =>
        /\ status = <<0>>
        /\ Len(lines) >= 7
        /\ \A f \in 1..7 : lines[Len(lines) - 7 + f][1] = ClaudeVars[f]
        /\ LET claude == Get(config, "claude", VMap(<<>>))
               shown == <<<<"f","a","l","s","e">>, <<"f","a","l","s","e">>, <<"3">>, Text_sonnet,
                          Text_opus, Text_050, Text_100>>
           IN  \A f \in 1..7 :
                  (claude.t # "dict" \/ ~HasKey(claude, ClaudeKeys[f])) =>
                      lines[Len(lines) - 7 + f] = <<ClaudeVars[f]>> \o shown[f]

(**************************** C6 ******************************************)
\* every assignment of the document has been appended
Complete ==
    /\ Len(lines) = P + 1 + 6 * N + 7
    /\ lines[Len(lines)][1] = "CLAUDE_FIX_BUDGET="

\* C6: a missing path and a file that is not valid YAML end with status 1,
\* a message on standard error and an empty standard output; standard
\* output is written only once, with the whole output, and status 0 comes
\* only with it.
C6_NoPartialOutput ==
    /\ (pc = "exit" /\ argc = 2 /\ file.kind \in {"missing", "invalid"}) =>
          status = <<1>> /\ stderr # <<>> /\ stdout = <<>>
    /\ stdout # <<>> =>
          /\ Done0
          /\ Complete
          /\ stdout = JoinWith(<<NL>>, lines) \o <<NL>>
    /\ status = <<0>> => stdout # <<>>
    /\ pc # "exit" => status = <<>>

C6_Witness ==
    /\ pc = "exit"
    /\ file.kind = "invalid"
    /\ status = <<1>>
    /\ stderr = <<"Error parsing YAML">>
    /\ stdout = <<>>

(**************************** C7 ******************************************)
\* C7: a file that is valid YAML but whose root is no mapping fails with
\* the document error the caller reports (message, status 1), as malformed
\* syntax does, and with no failure of another kind.
C7_AsStated ==
    (pc = "exit" /\ argc = 2 /\ file.kind # "missing" /\ file.doc.t # "dict") =>
        /\ exc = "YAMLError"
        /\ stderr = <<"Error parsing YAML">>
        /\ status = <<1>>
        /\ stdout = <<>>

(**************************** C8 ******************************************)
\* C8: a field whose value is null is emitted with an empty value, never as
\* the text None in any letter case, for the job fields and for the claude
\* fields, the booleans included.
C8_AsStated ==
    Done0 =>
        /\ \A k \in 0..(N - 1) : \A f \in {1, 2, 3, 4, 6} :
              LET key == <<"name", "script", "type", "array", "depends_on", "sbatch_flags">>[f]
              IN  (HasKey(TheJobs[k + 1], key) /\ Lookup(TheJobs[k + 1], key).t = "none") =>
                      JobLine(k, f) = <<JobVar(k, JobFields[f])>>
        /\ \A f \in 1..7 :
              LET claude == Get(config, "claude", VMap(<<>>))
              IN  (HasKey(claude, ClaudeKeys[f]) /\ Lookup(claude, ClaudeKeys[f]).t = "none") =>
                      /\ ClaudeLine(f) = <<ClaudeVars[f]>>
                      /\ Lower(Tail(ClaudeLine(f))) # <<"n","o","n","e">>

(**************************** C10 *****************************************)
\* the output the example lists, followed by the line break print adds
ExampleText ==
    JoinWith(<<NL>>,
        << <<"PROJECT_NAME=">> \o Text_demo,
           <<"NUM_JOBS=", "1">>,
           <<"JOB_0_NAME=">> \o Text_simulation,
           <<"JOB_0_SCRIPT=">> \o Text_script,
           <<"JOB_0_TYPE=">> \o Text_sbatch,
           <<"JOB_0_ARRAY=">> \o Text_array,
           <<"JOB_0_DEPENDS_ON=">>,
           <<"JOB_0_SBATCH_FLAGS=">>,
           <<"CLAUDE_ENABLED=", "f","a","l","s","e">>,
           <<"CLAUDE_AUTO_FIX=", "f","a","l","s","e">>,
           <<"CLAUDE_MAX_FIX_CYCLES=", "3">>,
           <<"CLAUDE_REVIEW_MODEL=">> \o Text_sonnet,
           <<"CLAUDE_FIX_MODEL=">> \o Text_opus,
           <<"CLAUDE_REVIEW_BUDGET=">> \o Text_050,
           <<"CLAUDE_FIX_BUDGET=">> \o Text_100 >>) \o <<NL>>

\* C10: a job without type, depends_on and sbatch_flags is written as
\* JOB_<i>_TYPE=sbatch, JOB_<i>_DEPENDS_ON= and JOB_<i>_SBATCH_FLAGS= with
\* nothing after the = sign, and the example document yields the listed
\* lines character for character.
C10_AsStated ==
    Done0 =>
        /\ \A k \in 0..(N - 1) :
              (\A key \in {"type", "depends_on", "sbatch_flags"} : ~HasKey(TheJobs[k + 1], key)) =>
                  /\ JobLine(k, 3) = <<JobVar(k, "TYPE")>> \o Text_sbatch
                  /\ JobLine(k, 5) = <<JobVar(k, "DEPENDS_ON")>>
                  /\ JobLine(k, 6) = <<JobVar(k, "SBATCH_FLAGS")>>
        /\ file.doc = ExampleDoc => stdout = ExampleText

====
